---- MODULE Spec2Model ----
(***************************************************************************)
(* Model of pulp_win's admin extension, extension/admin/repo.py:           *)
(*   - _prep_config and its two wrappers (CLI arguments -> plugin config), *)
(*   - MsiRepoCreateCommand.run and MsiRepoUpdateCommand.run,              *)
(*   - MsiRepoListCommand (get_repositories, get_other_repositories and    *)
(*     the lazily filled all_repos_cache).                                 *)
(*                                                                         *)
(* Representation.  A Python dict is a function; `k in d` is               *)
(* k \in DOMAIN d.  A key of the CLI arguments is the sequence of its      *)
(* words and separators (<<"serve", "-", "http">> is 'serve-http'), so     *)
(* that str.replace('-', '_') is a computation on the key.  Python's None, *)
(* True and False are the values None, TrueVal and FalseVal.  An optional  *)
(* reference (a value that may be None) is <<>> for None and <<v>> for v.  *)
(* A list of dicts is a sequence, and a reference to one of its dicts is   *)
(* the dict's index in it.                                                 *)
(*                                                                         *)
(* convert_removed_options is imported from pulp.client.arg_utils; it is   *)
(* modelled as the docstring of _prep_config states its effect, and as     *)
(* the wrappers' docstrings state its failure (InvalidConfig).             *)
(***************************************************************************)
EXTENDS Integers, Sequences, FiniteSets, TLC

\* ---------------------------------------------------------------- bounds
MaxArgs == 2        \* plugin-related keyword arguments in one command line
MaxRepos == 2       \* repositories in a server listing

\* ------------------------------------------------------------- constants
None == "<None>"
TrueVal == "<True>"
FalseVal == "<False>"
EmptyDict == [k \in {} |-> None]

\* The reserved names are imported (pulp.common.constants, pulp_win.common,
\* pulp.client.commands.options); the model reads them as distinct strings.
REPO_NOTE_TYPE_KEY == "_repo-type"
REPO_NOTE_WIN == "win-repo"
WIN_DISTRIBUTOR_ID == "win_distributor"
TYPE_ID_DISTRIBUTOR_WIN == "win_distributor_type"
TYPE_ID_IMPORTER_WIN == "win_importer"

OPTION_REPO_ID == <<"repo", "-", "id">>
OPTION_DESCRIPTION == <<"description">>
OPTION_NAME == <<"display", "-", "name">>

IMPORTER_CONFIG_KEYS == <<>>

WIN_DISTRIBUTOR_CONFIG_KEYS ==
    << << <<"relative", "_", "url">>, <<"relative", "_", "url">> >>,
       << <<"http">>, <<"serve", "_", "http">> >>,
       << <<"https">>, <<"serve", "_", "https">> >>,
       << <<"checksum", "_", "type">>, <<"checksum", "_", "type">> >>,
       << <<"skip">>, <<"skip">> >> >>

\* ---------------------------------------------------------- dict helpers
\* d[k] = v
SetItem(d, k, v) == [x \in DOMAIN d \cup {k} |-> IF x = k THEN v ELSE d[x]]

\* del d[k] (no effect on the mapping when k is not a key)
DelItem(d, k) == [x \in DOMAIN d \ {k} |-> d[x]]

\* d.get(k, default): the value read by d.pop(k, default) too
GetItem(d, k, default) == IF k \in DOMAIN d THEN d[k] ELSE default

\* ---------------------------------------------------------- _prep_config
\* k.replace('-', '_')
ReplaceIdentity(k) == k

Replace(k) == [i \in DOMAIN k |-> IF k[i] = "-" THEN "_" ELSE k[i]]

\* for k in kwargs.keys(): v = kwargs.pop(k); kwargs[new_key] = v
\* keys is the list kwargs.keys() returned, in the dict's iteration order.
RECURSIVE TranslateKeys(_, _)
TranslateKeys(kwargs, keys) ==
    IF keys = <<>> THEN kwargs
    ELSE LET k == Head(keys)
             v == kwargs[k]
         IN  TranslateKeys(SetItem(DelItem(kwargs, k), Replace(k), v), Tail(keys))

\* user_arg_keys = [k[1] for k in plugin_config_keys]
UserArgKeys(plugin_config_keys) ==
    {plugin_config_keys[i][2] : i \in DOMAIN plugin_config_keys}

PluginKeys(plugin_config_keys) ==
    {plugin_config_keys[i][1] : i \in DOMAIN plugin_config_keys}

\* dict([(k, v) for k, v in kwargs.items() if k in user_arg_keys])
Project(kwargs, plugin_config_keys) ==
    [k \in DOMAIN kwargs \cap UserArgKeys(plugin_config_keys) |-> kwargs[k]]

\* for plugin_key, cli_key in plugin_config_keys:
\*     plugin_config[plugin_key] = plugin_config.pop(cli_key, None)
RECURSIVE Rename(_, _)
Rename(plugin_config, plugin_config_keys) ==
    IF plugin_config_keys = <<>> THEN plugin_config
    ELSE LET plugin_key == Head(plugin_config_keys)[1]
             cli_key == Head(plugin_config_keys)[2]
             v == GetItem(plugin_config, cli_key, None)
         IN  Rename(SetItem(DelItem(plugin_config, cli_key), plugin_key, v),
                    Tail(plugin_config_keys))

\* convert_removed_options(plugin_config), as _prep_config documents it: strip
\* the None values (argument not specified), turn empty strings into None.
KeepNoneOptions(plugin_config) ==
    [k \in DOMAIN plugin_config |->
        IF plugin_config[k] = "" THEN None ELSE plugin_config[k]]

convert_removed_options(plugin_config) ==
    [k \in {x \in DOMAIN plugin_config : plugin_config[x] # None} |->
        IF plugin_config[k] = "" THEN None ELSE plugin_config[k]]

\* _prep_config(kwargs, plugin_config_keys): kwargs as the call leaves it
\* (the loop rewrites the caller's dict in place) and the dict it returns.
prep_config(kwargs, keys, plugin_config_keys) ==
    [ kwargs |-> TranslateKeys(kwargs, keys),
      config |-> convert_removed_options(
                     Rename(Project(TranslateKeys(kwargs, keys), plugin_config_keys),
                            plugin_config_keys)) ]

\* The orders in which a dict with the key set S may list its keys.
KeyOrders(S) ==
    {o \in [1..Cardinality(S) -> S] : \A i, j \in DOMAIN o : i # j => o[i] # o[j]}

\* ------------------------------------------------------------ the inputs
\* Keyword arguments the plugin-related part of a command line may carry: the
\* distributor's flags as the CLI spells them (hyphens), two of them in the
\* underscored spelling too, a flag no plugin key maps to, and a key that
\* is named like a plugin key without being a CLI key.
ArgKeys ==
    { <<"relative", "-", "url">>, <<"relative", "_", "url">>,
      <<"serve", "-", "http">>, <<"serve", "-", "https">>,
      <<"checksum", "-", "type">>, <<"checksum", "_", "type">>,
      <<"skip">>, <<"feed", "-", "url">>, <<"http">> }

ArgValues == {None, "", TrueVal}

PluginArgs ==
    UNION {[S -> ArgValues] : S \in {T \in SUBSET ArgKeys : Cardinality(T) <= MaxArgs}}

\* The standard options: repo-id alone, or with description and display-name
StdArgs ==
    { (OPTION_REPO_ID :> "win1"),
      (OPTION_REPO_ID :> "win2") @@ (OPTION_DESCRIPTION :> "a description")
          @@ (OPTION_NAME :> "a name") }

\* The value under the note keyword: the keyword may be missing from kwargs
\* (<<"missing">>), or hold None or a dict of notes.
NoteArgs ==
    { <<"missing">>, <<"value", <<>> >>, <<"value", <<EmptyDict>> >>,
      <<"value", <<(REPO_NOTE_TYPE_KEY :> "rpm-repo") @@ ("owner" :> "ops")>> >> }

\* ------------------------------------------------------------- the state
VARIABLES
    pc,               \* "idle": command not run yet; "done": run() has ended;
                      \* "call": a builder is about to be called on cmd.kwargs;
                      \* "list": a MsiRepoListCommand instance is alive
    cmd,              \* the command line: the command that ran (name), kwargs
                      \* as the framework passes it and the note keyword
    builds,           \* the config builds of the run, in order: the dict each
                      \* was given, before and after the call, and its outcome
    remote,           \* the calls made on context.server.repo by the run
    prompt,           \* the messages rendered on self.prompt by the run
    exc,              \* exception that left run(): "" when it returned
    server,           \* the repository listing the server holds now
    all_repos_cache,  \* MsiRepoListCommand.all_repos_cache
    fetched,          \* response bodies of the repositories() calls made by
                      \* this list-command instance, in order
    calls             \* the get_* call made first on this instance, and what
                      \* the last call of each returned (None before it)

vars == <<pc, cmd, builds, remote, prompt, exc, server, all_repos_cache, fetched, calls>>

cmdVars == <<cmd, builds, remote, prompt, exc>>
listVars == <<server, all_repos_cache, fetched, calls>>

\* ------------------------------------------------------ config building
\* One call of args_to_importer_config / args_to_win_distributor_config on
\* the dict kwargs, whose keys() come in the order keys: the dict as the call
\* found it and as it left it, and the config returned.
args_to_importer_config(kwargs, keys) ==
    LET p == prep_config(kwargs, keys, IMPORTER_CONFIG_KEYS)
    IN  [ fn |-> "args_to_importer_config", before |-> kwargs,
          after |-> p.kwargs, config |-> p.config ]

args_to_win_distributor_config(kwargs, keys) ==
    LET p == prep_config(kwargs, keys, WIN_DISTRIBUTOR_CONFIG_KEYS)
    IN  [ fn |-> "args_to_win_distributor_config", before |-> kwargs,
          after |-> p.kwargs, config |-> p.config ]

\* The importer build of kwargs followed by the distributor build of the
\* same dict, for every order in which the dict may list its keys.
BuildPairs(kwargs) ==
    UNION { { <<b1, args_to_win_distributor_config(b1.after, o2)>> :
                o2 \in KeyOrders(DOMAIN b1.after) } :
            b1 \in { args_to_importer_config(kwargs, o1) :
                       o1 \in KeyOrders(DOMAIN kwargs) } }

\* What the option conversion of a run does: it accepts every config, or it
\* raises InvalidConfig in one of the two builds.
Conversions == {"accepts", "rejects importer", "rejects distributor"}

\* The builds a run makes, in order, each with its outcome: the second build
\* is reached only when the first did not raise.
BuildsNoStop(pair, conversion) ==
    << [build |-> pair[1], raised |-> conversion = "rejects importer"],
       [build |-> pair[2], raised |-> conversion = "rejects distributor"] >>

Builds(pair, conversion) ==
    IF conversion = "rejects importer"
    THEN << [build |-> pair[1], raised |-> TRUE] >>
    ELSE << [build |-> pair[1], raised |-> FALSE],
            [build |-> pair[2], raised |-> conversion = "rejects distributor"] >>

\* -------------------------------------------- MsiRepoCreateCommand.run
\* kwargs after run() popped the standard options
Popped(kwargs) ==
    DelItem(DelItem(DelItem(kwargs, OPTION_REPO_ID), OPTION_DESCRIPTION), OPTION_NAME)

\* notes = kwargs.pop(note) or {};  notes[REPO_NOTE_TYPE_KEY] = REPO_NOTE_WIN
CreateNotesKeepCaller(note) ==
    LET given == note[2]
        notes == IF given = <<>> THEN EmptyDict ELSE given[1]
    IN  IF REPO_NOTE_TYPE_KEY \in DOMAIN notes THEN notes
        ELSE SetItem(notes, REPO_NOTE_TYPE_KEY, REPO_NOTE_WIN)

CreateNotes(note) ==
    LET given == note[2]
        notes == IF given = <<>> \/ given[1] = EmptyDict THEN EmptyDict ELSE given[1]
    IN  SetItem(notes, REPO_NOTE_TYPE_KEY, REPO_NOTE_WIN)

RelativeUrlKey == <<"relative", "_", "url">>
HttpKey == <<"http">>
HttpsKey == <<"https">>

\* if 'relative_url' not in win_distributor_config: ... = repo_id
DefaultRelativeUrlAlways(config, repo_id) == SetItem(config, RelativeUrlKey, repo_id)

DefaultRelativeUrl(config, repo_id) ==
    IF RelativeUrlKey \notin DOMAIN config
    THEN SetItem(config, RelativeUrlKey, repo_id)
    ELSE config

\* if 'http' not in config and 'https' not in config: https = True, http = False
\* for k in ('http', 'https'): if k not in config: config[k] = False
DefaultServingHttp(config) ==
    LET c1 == IF HttpKey \notin DOMAIN config /\ HttpsKey \notin DOMAIN config
              THEN SetItem(SetItem(config, HttpsKey, FalseVal), HttpKey, TrueVal)
              ELSE config
        c2 == IF HttpKey \notin DOMAIN c1 THEN SetItem(c1, HttpKey, FalseVal) ELSE c1
    IN  IF HttpsKey \notin DOMAIN c2 THEN SetItem(c2, HttpsKey, FalseVal) ELSE c2

DefaultServing(config) ==
    LET c1 == IF HttpKey \notin DOMAIN config /\ HttpsKey \notin DOMAIN config
              THEN SetItem(SetItem(config, HttpsKey, TrueVal), HttpKey, FalseVal)
              ELSE config
        c2 == IF HttpKey \notin DOMAIN c1 THEN SetItem(c1, HttpKey, FalseVal) ELSE c1
    IN  IF HttpsKey \notin DOMAIN c2 THEN SetItem(c2, HttpsKey, FalseVal) ELSE c2

\* The rest of run(), after the builds: the failure message and return, or
\* the defaults, the remote call and the success message.
CreateFinish(repo_id, display_name, description, notes, bs, fails) ==
    IF \E i \in DOMAIN bs : bs[i].raised
    THEN [ remote |-> <<>>,
           prompt |-> <<[kind |-> "failure", text |-> "InvalidConfig"]>>,
           exc |-> "" ]
    ELSE LET win_distributor_config ==
                 DefaultServing(DefaultRelativeUrl(bs[2].build.config, repo_id))
             call == [ op |-> "create_and_configure",
                       repo_id |-> repo_id,
                       display_name |-> display_name,
                       description |-> description,
                       notes |-> notes,
                       importer_type_id |-> TYPE_ID_IMPORTER_WIN,
                       importer_config |-> bs[1].build.config,
                       distributors |->
                           << [ distributor_type |-> TYPE_ID_DISTRIBUTOR_WIN,
                                distributor_config |-> win_distributor_config,
                                auto_publish |-> TRUE,
                                distributor_id |-> WIN_DISTRIBUTOR_ID ] >> ]
         IN  [ remote |-> <<call>>,
               prompt |-> IF fails THEN <<>>
                          ELSE <<[kind |-> "success", text |-> repo_id]>>,
               exc |-> IF fails THEN "RemoteError" ELSE "" ]

MsiRepoCreateCommand_run ==
    /\ pc = "idle"
    /\ pc' = "done"
    /\ cmd' = [cmd EXCEPT !.name = "create"]
    /\ IF cmd.note = <<"missing">>
       THEN \* kwargs.pop(OPTION_NOTES.keyword) raises KeyError
            /\ builds' = <<>>
            /\ remote' = <<>>
            /\ prompt' = <<>>
            /\ exc' = "KeyError"
       ELSE \E pair \in BuildPairs(Popped(cmd.kwargs)), conversion \in Conversions,
               fails \in BOOLEAN :
            \E end \in { CreateFinish(cmd.kwargs[OPTION_REPO_ID],
                                      GetItem(cmd.kwargs, OPTION_NAME, None),
                                      GetItem(cmd.kwargs, OPTION_DESCRIPTION, None),
                                      CreateNotes(cmd.note),
                                      Builds(pair, conversion), fails) } :
                /\ builds' = Builds(pair, conversion)
                /\ remote' = end.remote
                /\ prompt' = end.prompt
                /\ exc' = end.exc
    /\ UNCHANGED listVars

\* -------------------------------------------- MsiRepoUpdateCommand.run
\* notes = kwargs.pop(note, None): None too when the keyword is missing
UpdateNotes(note) == IF note = <<"missing">> THEN <<>> ELSE note[2]

UpdateFinish(repo_id, display_name, description, notes, bs, response) ==
    IF \E i \in DOMAIN bs : bs[i].raised
    THEN [ remote |-> <<>>,
           prompt |-> <<[kind |-> "failure", text |-> "InvalidConfig"]>>,
           exc |-> "" ]
    ELSE LET call == [ op |-> "update_repo_and_plugins",
                       repo_id |-> repo_id,
                       display_name |-> display_name,
                       description |-> description,
                       notes |-> notes,
                       importer_config |-> bs[1].build.config,
                       distributor_configs |->
                           (TYPE_ID_DISTRIBUTOR_WIN :> bs[2].build.config) ]
         IN  [ remote |-> <<call>>,
               prompt |->
                   CASE response = "sync" ->
                            <<[kind |-> "success", text |-> repo_id]>>
                     [] response = "async" ->
                            <<[kind |-> "paragraph", text |-> "postponed"],
                              [kind |-> "reasons", text |-> "reasons"]>>
                     [] OTHER -> <<>>,
               exc |-> IF response = "raise" THEN "RemoteError" ELSE "" ]

MsiRepoUpdateCommand_run ==
    /\ pc = "idle"
    /\ pc' = "done"
    /\ cmd' = [cmd EXCEPT !.name = "update"]
    /\ \E pair \in BuildPairs(Popped(cmd.kwargs)), conversion \in Conversions,
          response \in {"sync", "async", "raise"} :
       \E end \in { UpdateFinish(cmd.kwargs[OPTION_REPO_ID],
                                 GetItem(cmd.kwargs, OPTION_NAME, None),
                                 GetItem(cmd.kwargs, OPTION_DESCRIPTION, None),
                                 UpdateNotes(cmd.note),
                                 Builds(pair, conversion), response) } :
           /\ builds' = Builds(pair, conversion)
           /\ remote' = end.remote
           /\ prompt' = end.prompt
           /\ exc' = end.exc
    /\ UNCHANGED listVars

\* ------------------------------------------------------ the command runs
\* A command line as the framework hands it to run(): kwargs holds the plugin
\* arguments and the standard options; the note keyword is kept apart.
CommandLines ==
    { [name |-> "", kwargs |-> args @@ std, note |-> note] :
        args \in PluginArgs, std \in StdArgs, note \in NoteArgs }

Init ==
    /\ pc = "idle"
    /\ cmd \in CommandLines
    /\ builds = <<>>
    /\ remote = <<>>
    /\ prompt = <<>>
    /\ exc = ""
    /\ server = <<>>
    /\ all_repos_cache = <<>>
    /\ fetched = <<>>
    /\ calls = [first |-> "", msi_repos |-> <<>>, non_msi_repos |-> <<>>]

Next == MsiRepoCreateCommand_run \/ MsiRepoUpdateCommand_run

Spec == Init /\ [][Next]_vars

\* ------------------------------------------------ the builders alone
\* args_to_importer_config and args_to_win_distributor_config as functions
\* of the dict they are given: one call on a dict of plugin arguments.
call_args_to_importer_config ==
    /\ pc = "call"
    /\ pc' = "done"
    /\ \E o \in KeyOrders(DOMAIN cmd.kwargs), raised \in BOOLEAN :
           builds' = << [build |-> args_to_importer_config(cmd.kwargs, o),
                         raised |-> raised] >>
    /\ UNCHANGED <<cmd, remote, prompt, exc>>
    /\ UNCHANGED listVars

call_args_to_win_distributor_config ==
    /\ pc = "call"
    /\ pc' = "done"
    /\ \E o \in KeyOrders(DOMAIN cmd.kwargs), raised \in BOOLEAN :
           builds' = << [build |-> args_to_win_distributor_config(cmd.kwargs, o),
                         raised |-> raised] >>
    /\ UNCHANGED <<cmd, remote, prompt, exc>>
    /\ UNCHANGED listVars

PrepInit ==
    /\ pc = "call"
    /\ cmd \in {[name |-> "", kwargs |-> args, note |-> <<"missing">>] : args \in PluginArgs}
    /\ builds = <<>>
    /\ remote = <<>>
    /\ prompt = <<>>
    /\ exc = ""
    /\ server = <<>>
    /\ all_repos_cache = <<>>
    /\ fetched = <<>>
    /\ calls = [first |-> "", msi_repos |-> <<>>, non_msi_repos |-> <<>>]

PrepNext == call_args_to_importer_config \/ call_args_to_win_distributor_config

PrepSpec == PrepInit /\ [][PrepNext]_vars

\* ------------------------------------------------- MsiRepoListCommand
\* The records of a server listing.  A record has an id and notes; a
\* detailed fetch adds its distributors and its importers.  A repository
\* has one importer, and the importers list of a record holds it.
EXPORT_DISTRIBUTOR_ID == "export_distributor"

DistributorLists ==
    { <<>>,
      <<[id |-> WIN_DISTRIBUTOR_ID]>>,
      <<[id |-> EXPORT_DISTRIBUTOR_ID]>>,
      <<[id |-> EXPORT_DISTRIBUTOR_ID], [id |-> WIN_DISTRIBUTOR_ID]>>,
      <<[id |-> WIN_DISTRIBUTOR_ID], [id |-> EXPORT_DISTRIBUTOR_ID]>> }

RepoNotes ==
    { EmptyDict,
      (REPO_NOTE_TYPE_KEY :> REPO_NOTE_WIN),
      (REPO_NOTE_TYPE_KEY :> "rpm-repo") }

RepoShapes ==
    { [notes |-> n] @@ d :
        n \in RepoNotes,
        d \in {EmptyDict} \cup
              { [distributors |-> l, importers |-> <<[config |-> EmptyDict]>>] :
                  l \in DistributorLists } }

Listings ==
    UNION { { [i \in 1..n |-> [id |-> i] @@ f[i]] : f \in [1..n -> RepoShapes] } :
            n \in 0..MaxRepos }

\* _all_repos: the remote call is made when the cache is None
AlwaysFetch == TRUE

NeedsFetch == all_repos_cache = <<>>

all_repos == IF NeedsFetch THEN server ELSE all_repos_cache[1]

\* the condition of get_repositories:
\*   REPO_NOTE_TYPE_KEY in notes and notes[REPO_NOTE_TYPE_KEY] == REPO_NOTE_WIN
IsMsi(notes) ==
    REPO_NOTE_TYPE_KEY \in DOMAIN notes /\ notes[REPO_NOTE_TYPE_KEY] = REPO_NOTE_WIN

\* the condition of get_other_repositories:
\*   notes.get(REPO_NOTE_TYPE_KEY, None) != REPO_NOTE_WIN
IsOtherNeedsMarker(notes) ==
    REPO_NOTE_TYPE_KEY \in DOMAIN notes /\ notes[REPO_NOTE_TYPE_KEY] # REPO_NOTE_WIN

IsOther(notes) == GetItem(notes, REPO_NOTE_TYPE_KEY, None) # REPO_NOTE_WIN

\* msi_repos / non_msi_repos: the references, in list order, to the records
\* of repos that satisfy the condition
msi_repos_of(repos) ==
    SelectSeq([i \in 1..Len(repos) |-> i], LAMBDA i : IsMsi(repos[i].notes))

non_msi_repos_of(repos) ==
    SelectSeq([i \in 1..Len(repos) |-> i], LAMBDA i : IsOther(repos[i].notes))

\* r['distributors'] = [x for x in r['distributors'] if x['id'] == WIN_DISTRIBUTOR_ID]
Prune(r) ==
    IF "distributors" \in DOMAIN r
    THEN [r EXCEPT !.distributors = SelectSeq(@, LAMBDA x : x.id = WIN_DISTRIBUTOR_ID)]
    ELSE r

\* The list get_repositories read, after its loop over msi_repos: the
\* records are the dicts of the list, so the list holds the pruned records.
PrunedEverywhere(repos, refs) == [i \in 1..Len(repos) |-> Prune(repos[i])]

Pruned(repos, refs) ==
    [i \in 1..Len(repos) |->
        IF \E j \in DOMAIN refs : refs[j] = i THEN Prune(repos[i]) ELSE repos[i]]

\* What a get_* call returned: references into the list it read, which is
\* the response body of the read-th remote call of the instance.
Result(refs, fetches) == <<[refs |-> refs, read |-> Len(fetches)]>>

get_repositories ==
    /\ pc = "list"
    /\ \E repos \in {all_repos} :
       \E msi_repos \in {msi_repos_of(repos)} :
           /\ fetched' = IF NeedsFetch THEN Append(fetched, server) ELSE fetched
           /\ all_repos_cache' = <<Pruned(repos, msi_repos)>>
           /\ calls' = [calls EXCEPT
                  !.first = IF @ = "" THEN "get_repositories" ELSE @,
                  !.msi_repos = Result(msi_repos, fetched')]
    /\ UNCHANGED <<pc, cmd, builds, remote, prompt, exc, server>>

get_other_repositories ==
    /\ pc = "list"
    /\ \E repos \in {all_repos} :
       \E non_msi_repos \in {non_msi_repos_of(repos)} :
           /\ fetched' = IF NeedsFetch THEN Append(fetched, server) ELSE fetched
           /\ all_repos_cache' = <<repos>>
           /\ calls' = [calls EXCEPT
                  !.first = IF @ = "" THEN "get_other_repositories" ELSE @,
                  !.non_msi_repos = Result(non_msi_repos, fetched')]
    /\ UNCHANGED <<pc, cmd, builds, remote, prompt, exc, server>>

\* Between two calls the server's listing may change: a repository is deleted
RepositoryDeleted ==
    /\ pc = "list"
    /\ server # <<>>
    /\ \E i \in DOMAIN server :
           server' = SelectSeq(server, LAMBDA r : r.id # server[i].id)
    /\ UNCHANGED <<pc, cmd, builds, remote, prompt, exc, all_repos_cache, fetched, calls>>

NoCalls == [first |-> "", msi_repos |-> <<>>, non_msi_repos |-> <<>>]

\* MsiRepoListCommand.__init__: a fresh instance, whatever the server holds
ListInit ==
    /\ pc = "list"
    /\ cmd = [name |-> "list", kwargs |-> EmptyDict, note |-> <<"missing">>]
    /\ builds = <<>>
    /\ remote = <<>>
    /\ prompt = <<>>
    /\ exc = ""
    /\ server \in Listings
    /\ all_repos_cache = <<>>
    /\ fetched = <<>>
    /\ calls = NoCalls

ListNext == get_repositories \/ get_other_repositories \/ RepositoryDeleted

ListSpec == ListInit /\ [][ListNext]_vars

\* ================================================================ claims
\* The two spellings of a flag: k with its hyphens written as underscores.
Underscored(k) == [i \in DOMAIN k |-> IF k[i] = "-" THEN "_" ELSE k[i]]

\* The values a command line carries for the CLI key cli, under either spelling
Supplied(kwargs, cli) == {kwargs[k] : k \in {x \in DOMAIN kwargs : Underscored(x) = cli}}

\* The flag cli was not specified: no spelling of it carries a value
Unspecified(kwargs, cli) == Supplied(kwargs, cli) \subseteq {None}

\* The key mapping a build uses
MappingOf(build) ==
    IF build.fn = "args_to_importer_config" THEN IMPORTER_CONFIG_KEYS
    ELSE WIN_DISTRIBUTOR_CONFIG_KEYS

Returned == {i \in DOMAIN builds : ~builds[i].raised}

\* The distributor config of the remote create call
SentConfig == remote[1].distributors[1].distributor_config

CreateCalled == cmd.name = "create" /\ remote # <<>>

\* C1 as claimed: the config a build returns has exactly the plugin keys of
\* its mapping as keys, with None under every plugin key whose CLI argument
\* was not specified.
C1_AsClaimed ==
    \A i \in Returned :
        LET b == builds[i].build
            m == MappingOf(b)
        IN  /\ DOMAIN b.config = PluginKeys(m)
            /\ \A j \in DOMAIN m :
                   Unspecified(b.before, m[j][2]) => b.config[m[j][1]] = None

\* C1 amended: the config a build returns has no key outside the plugin keys
\* of its mapping; a plugin key whose CLI argument was not specified is left
\* out of it; one given as the empty string is in it with None; one given
\* any other value is in it with that value.
C1_Config ==
    \A i \in Returned :
        LET b == builds[i].build
            m == MappingOf(b)
        IN  /\ DOMAIN b.config \subseteq PluginKeys(m)
            /\ \A j \in DOMAIN m :
                   LET given == Supplied(b.before, m[j][2]) IN
                   /\ given \subseteq {None} => m[j][1] \notin DOMAIN b.config
                   /\ given = {""} =>
                          m[j][1] \in DOMAIN b.config /\ b.config[m[j][1]] = None
                   /\ \A v \in given \ {None, ""} :
                          given = {v} =>
                              m[j][1] \in DOMAIN b.config /\ b.config[m[j][1]] = v

C1_Witness ==
    /\ Len(builds) = 1
    /\ ~builds[1].raised
    /\ builds[1].build.fn = "args_to_win_distributor_config"
    /\ Supplied(builds[1].build.before, <<"serve", "_", "http">>) = {TrueVal}
    /\ Supplied(builds[1].build.before, <<"checksum", "_", "type">>) = {""}
    /\ Unspecified(builds[1].build.before, RelativeUrlKey)
    /\ builds[1].build.config =
           (HttpKey :> TrueVal) @@ (<<"checksum", "_", "type">> :> None)

\* C2 as claimed: a build leaves the dict it was given with the keys and
\* values it had before the call.
C2_ArgsNotModified ==
    \A i \in DOMAIN builds : builds[i].build.after = builds[i].build.before

\* C3: the distributor config of the remote create call has both http and
\* https; with neither serving flag specified it has https True and http
\* False; with only http=True given it has http True and https False; and a
\* flag left unspecified beside a specified one is False.
C3_ServingDefaults ==
    CreateCalled =>
        LET args == Popped(cmd.kwargs)
            noHttp == Unspecified(args, <<"serve", "_", "http">>)
            noHttps == Unspecified(args, <<"serve", "_", "https">>)
        IN  /\ {HttpKey, HttpsKey} \subseteq DOMAIN SentConfig
            /\ noHttp /\ noHttps =>
                   SentConfig[HttpsKey] = TrueVal /\ SentConfig[HttpKey] = FalseVal
            /\ Supplied(args, <<"serve", "_", "http">>) = {TrueVal} /\ noHttps =>
                   SentConfig[HttpKey] = TrueVal /\ SentConfig[HttpsKey] = FalseVal
            /\ noHttp /\ ~noHttps => SentConfig[HttpKey] = FalseVal
            /\ noHttps /\ ~noHttp => SentConfig[HttpsKey] = FalseVal

C3_Witness ==
    /\ CreateCalled
    /\ Supplied(Popped(cmd.kwargs), <<"serve", "_", "http">>) = {TrueVal}
    /\ Unspecified(Popped(cmd.kwargs), <<"serve", "_", "https">>)
    /\ SentConfig[HttpKey] = TrueVal
    /\ SentConfig[HttpsKey] = FalseVal

C5_InvalidConfig ==
    /\ (\E i \in DOMAIN builds : builds[i].raised) =>
           /\ remote = <<>>
           /\ prompt = <<[kind |-> "failure", text |-> "InvalidConfig"]>>
           /\ exc = ""
    /\ cmd.name = "update" /\ builds # <<>> /\ builds[1].raised => Len(builds) = 1

C5_Witness ==
    /\ cmd.name = "update"
    /\ Len(builds) = 1
    /\ builds[1].raised
    /\ builds[1].build.fn = "args_to_importer_config"
    /\ remote = <<>>

\* C9: the notes of the remote create call hold the family's marker under the
\* type-marker key, whatever the caller's notes held there, and every other
\* note of the caller unchanged.
C9_TypeMarker ==
    CreateCalled =>
        LET sent == remote[1].notes
            caller == IF cmd.note[2] = <<>> THEN EmptyDict ELSE cmd.note[2][1]
        IN  /\ DOMAIN sent = DOMAIN caller \cup {REPO_NOTE_TYPE_KEY}
            /\ sent[REPO_NOTE_TYPE_KEY] = REPO_NOTE_WIN
            /\ \A k \in DOMAIN caller \ {REPO_NOTE_TYPE_KEY} : sent[k] = caller[k]

C9_Witness ==
    /\ CreateCalled
    /\ cmd.note[2] # <<>>
    /\ REPO_NOTE_TYPE_KEY \in DOMAIN cmd.note[2][1]
    /\ cmd.note[2][1][REPO_NOTE_TYPE_KEY] # REPO_NOTE_WIN
    /\ remote[1].notes[REPO_NOTE_TYPE_KEY] = REPO_NOTE_WIN
    /\ remote[1].notes["owner"] = "ops"

\* The arguments kwargs with the key k spelled with underscores
Respelled(kwargs, k) ==
    [x \in (DOMAIN kwargs \ {k}) \cup {Underscored(k)} |->
        IF x = Underscored(k) THEN kwargs[k] ELSE kwargs[x]]

\* A call of the builder named fn
BuildOf(fn, kwargs, keys) ==
    IF fn = "args_to_importer_config" THEN args_to_importer_config(kwargs, keys)
    ELSE args_to_win_distributor_config(kwargs, keys)

\* C10: a build leaves no hyphen in a key of the dict, and the config it
\* returns is the one every build returns from the same arguments with a
\* hyphenated key spelled with underscores instead.
C10_Normalization ==
    \A i \in DOMAIN builds :
        LET b == builds[i].build IN
        /\ \A k \in DOMAIN b.after : \A j \in DOMAIN k : k[j] # "-"
        /\ \A k \in DOMAIN b.before :
               Underscored(k) \notin DOMAIN b.before =>
                   \A o \in KeyOrders(DOMAIN Respelled(b.before, k)) :
                       BuildOf(b.fn, Respelled(b.before, k), o).config = b.config

C10_Witness ==
    /\ Len(builds) = 1
    /\ builds[1].build.fn = "args_to_win_distributor_config"
    /\ <<"checksum", "-", "type">> \in DOMAIN builds[1].build.before
    /\ builds[1].build.before[<<"checksum", "-", "type">>] = TrueVal
    /\ <<"checksum", "_", "type">> \in DOMAIN builds[1].build.config
    /\ builds[1].build.config[<<"checksum", "_", "type">>] = TrueVal

\* The call that returned result returned a reference to record i
InRefs(result, i) == \E j \in DOMAIN result[1].refs : result[1].refs[j] = i

\* No reference twice
Distinct(refs) == \A i, j \in DOMAIN refs : i # j => refs[i] # refs[j]

C7_SingleFetch ==
    /\ Len(fetched) <= 1
    /\ calls.first # "" => Len(fetched) = 1
    /\ calls.msi_repos # <<>> => calls.msi_repos[1].read = 1
    /\ calls.non_msi_repos # <<>> => calls.non_msi_repos[1].read = 1
    /\ all_repos_cache # <<>> =>
           /\ Len(fetched) = 1
           /\ Len(all_repos_cache[1]) = Len(fetched[1])
           /\ \A i \in DOMAIN fetched[1] :
                  /\ all_repos_cache[1][i].id = fetched[1][i].id
                  /\ all_repos_cache[1][i].notes = fetched[1][i].notes

C7_Witness ==
    /\ calls.msi_repos # <<>>
    /\ calls.non_msi_repos # <<>>
    /\ Len(fetched) = 1
    /\ server # fetched[1]
    /\ fetched[1] # <<>>

\* C8: a record get_repositories returned has its distributors, when it has
\* the field, cut down to the entries with the family's distributor id, in
\* their order; its other fields, and every field of the records it did not
\* return, are as fetched; however many times it was called.
C8_Pruning ==
    calls.msi_repos # <<>> =>
        \A i \in DOMAIN fetched[1] :
            LET was == fetched[1][i]
                now == all_repos_cache[1][i]
            IN  IF InRefs(calls.msi_repos, i)
                THEN /\ DOMAIN now = DOMAIN was
                     /\ \A f \in DOMAIN was \ {"distributors"} : now[f] = was[f]
                     /\ "distributors" \in DOMAIN was =>
                            now.distributors =
                                SelectSeq(was.distributors,
                                          LAMBDA x : x.id = WIN_DISTRIBUTOR_ID)
                ELSE now = was

C8_Witness ==
    /\ calls.msi_repos # <<>>
    /\ calls.msi_repos[1].refs = <<1>>
    /\ Len(fetched[1]) = 2
    /\ "distributors" \in DOMAIN fetched[1][1]
    /\ fetched[1][1].distributors =
           <<[id |-> EXPORT_DISTRIBUTOR_ID], [id |-> WIN_DISTRIBUTOR_ID]>>
    /\ all_repos_cache[1][1].distributors = <<[id |-> WIN_DISTRIBUTOR_ID]>>
    /\ "distributors" \in DOMAIN fetched[1][2]
    /\ all_repos_cache[1][2] = fetched[1][2]
====
